---- MODULE Spec2Model ----
(***************************************************************************)
(* Model of the PayPal payment agent's tool-calling core:                  *)
(*   ConversationManager  (src/core/conversation.py)                       *)
(*   FunctionRegistry     (src/functions/registry.py)                      *)
(*   OpenAIAdapter        (src/adapters/llm/openai.py)                     *)
(*   PayPalReactAgent     (src/core/agent.py)                              *)
(*                                                                         *)
(* Python strings are sequences of tokens (the empty string is << >>), an  *)
(* optional value (an absent dict key, None) is a sequence of length 0 or  *)
(* 1, and an f-string is the concatenation of its pieces.                  *)
(***************************************************************************)
EXTENDS Integers, Sequences, FiniteSets, TLC

VARIABLES
    max_history,       \* ConversationManager.max_history
    history,           \* ConversationManager.history
    now,               \* logical clock read by time.time()
    storeOps,          \* number of direct store calls made so far
    llm,               \* which LLMProvider the agent was built with
    functions,         \* FunctionRegistry.functions (dict, insertion ordered)
    schemas,           \* FunctionRegistry.schemas (dict, insertion ordered)
    pc,                \* position of the process_message call
    turns,             \* local turns of process_message
    current_response,  \* local current_response of process_message
    user_logs,         \* local user_logs of process_message
    result,            \* the dict process_message returned, None before
    log,               \* texts written with logger.error / logger.warning
    returned,          \* outcomes of this call's get_completion calls, in order
    lastCall,          \* arguments of the latest get_completion call
    dispatched,        \* FunctionRegistry.execute calls of this process_message
    invoked,           \* handler invocations of this process_message, per name
    fault,             \* the store and counters when a gateway call raised
    toolFailure,       \* the latest tool-level failure, None before
    payment,           \* which payment provider the handlers are bound to
    requests,          \* process_message calls that have returned to the caller
    clearedAt,         \* the clock when the store was last cleared, 0 before
    regOps,            \* number of direct registry calls made so far
    lastExec,          \* name and result of the latest direct execute call
    listed,            \* the schema listings returned since the latest register
    firstRegistration, \* name, handler, schema of each first registration, in order
    projected,         \* the latest direct get_messages(): its result and the store
    chats,             \* the concurrent chat requests: position and locals of each
    owners,            \* which chat request appended the turn of each timestamp
    resets             \* number of /api/reset requests served so far

storeVars == <<max_history, history, now, storeOps>>

registryVars == <<functions, schemas>>

agentVars == <<llm, pc, turns, current_response, user_logs, result, log, returned,
               lastCall, dispatched, invoked, fault, toolFailure>>

\* what the steps of process_message never touch
listingVars == <<listed, firstRegistration>>

concVars == <<chats, owners, resets>>

otherVars == <<payment, requests, clearedAt, regOps, lastExec, listingVars, projected,
               concVars>>

vars == <<max_history, history, now, storeOps, llm, functions, schemas, pc, turns,
          current_response, user_logs, result, log, returned, lastCall, dispatched,
          invoked, fault, toolFailure, payment, requests, clearedAt, regOps, lastExec,
          listed, firstRegistration, projected, chats, owners, resets>>

(***************************************************************************)
(* Bounds of the model.                                                    *)
(***************************************************************************)
\* max_history ranges over 0..MaxHistBound and the default
MaxHistBound == 2
\* number of direct calls on the store in one behaviour of SpecStore
MaxStoreOps == 4
\* number of direct calls on the registry in one behaviour of SpecRegistry
MaxRegistryOps == 4
\* number of process_message calls that return before the last one starts
MaxRequests == 2
\* tool requests the gateway makes per chat request in SpecConc
MaxChatTools == 1
\* number of /api/reset requests in one behaviour of SpecConc
MaxResets == 1

(***************************************************************************)
(* Program constants.                                                      *)
(***************************************************************************)
DefaultMaxHistory == 100
max_turns == 3

None == << >>
Some(x) == <<x>>

MaxHistories == (0 .. MaxHistBound) \cup {DefaultMaxHistory}

(***************************************************************************)
(* ConversationManager                                                     *)
(***************************************************************************)
\* a slice that keeps the oldest n turns: seq[:n]
LastSlice_FromFront(seq, n) ==
    SubSeq(seq, 1, IF n < Len(seq) THEN n ELSE Len(seq))

\* Python's seq[-n:] : a start index of -n counts from the end when it is
\* negative, is the beginning when it is 0 (-0 = 0), and counts from the
\* beginning when it is positive.
LastSlice(seq, n) ==
    LET start == IF -n < 0
                 THEN (IF Len(seq) - n < 0 THEN 0 ELSE Len(seq) - n)
                 ELSE (IF -n > Len(seq) THEN Len(seq) ELSE -n)
    IN  SubSeq(seq, start + 1, Len(seq))

\* a truncation that keeps one turn less than max_history
Truncate_KeepsOneLess(h, mh) ==
    IF Len(h) >= mh THEN LastSlice(h, mh - 1) ELSE h

\* "Truncate history if needed"
Truncate(h, mh) ==
    IF Len(h) > mh THEN LastSlice(h, mh) ELSE h

\* the dict built by add_message: the key "name" is present only when a
\* function name was given
Message(role, content, function_name, t) ==
    [role |-> role, content |-> content, name |-> function_name,
     function_call |-> None, timestamp |-> t]

\* the dict built by add_function_call
FunctionCallMessage(role, content, function_call_data, t) ==
    [role |-> role, content |-> content, name |-> None,
     function_call |-> Some(function_call_data), timestamp |-> t]

add_message(h, mh, role, content, function_name, t) ==
    Truncate(Append(h, Message(role, content, function_name, t)), mh)

\* an add_function_call that stores the turn without its tool request
add_function_call_NoRequest(h, mh, role, content, function_call_data, t) ==
    Truncate(Append(h, Message(role, content, None, t)), mh)

add_function_call(h, mh, role, content, function_call_data, t) ==
    Truncate(Append(h, FunctionCallMessage(role, content, function_call_data, t)), mh)

\* a projection that leaves out the turns that carry a tool request
get_messages_SkipsRequests(h) ==
    LET kept == SelectSeq(h, LAMBDA msg : msg.function_call = None)
    IN  [i \in 1 .. Len(kept) |->
            [role |-> kept[i].role, content |-> kept[i].content, name |-> kept[i].name]]

\* the projection handed to the LLM: role, content and, when present, name
get_messages(h) ==
    [i \in 1 .. Len(h) |->
        [role |-> h[i].role, content |-> h[i].content, name |-> h[i].name]]

\* a clear that keeps the newest turn
clear_KeepsLast(h) == LastSlice(h, 1)

clear(h) == << >>

(***************************************************************************)
(* FunctionRegistry.  A Python dict is a sequence of <<key, value>> pairs  *)
(* in insertion order.                                                     *)
(***************************************************************************)
DictKeys(d) == {d[i][1] : i \in 1 .. Len(d)}

DictGet(d, k) ==
    IF k \in DictKeys(d)
    THEN Some(d[CHOOSE i \in 1 .. Len(d) : d[i][1] = k][2])
    ELSE None

\* a dict whose item assignment moves an existing key to the end
DictSet_MoveToEnd(d, k, v) ==
    Append(SelectSeq(d, LAMBDA e : e[1] # k), <<k, v>>)

\* d[k] = v : an existing key keeps its position and takes the new value
DictSet(d, k, v) ==
    IF k \in DictKeys(d)
    THEN [i \in 1 .. Len(d) |-> IF d[i][1] = k THEN <<k, v>> ELSE d[i]]
    ELSE Append(d, <<k, v>>)

DictValues(d) == [i \in 1 .. Len(d) |-> d[i][2]]

\* register(name, func, schema): the new pair <<functions, schemas>>
register(fns, schs, name, func, schema) ==
    <<DictSet(fns, name, func), DictSet(schs, name, schema)>>

\* a lookup that falls back on the first registered handler
get_function_FirstRegistered(fns, name) ==
    IF DictGet(fns, name) # None \/ fns = << >>
    THEN DictGet(fns, name)
    ELSE Some(fns[1][2])

get_function(fns, name) == DictGet(fns, name)

\* a listing of the registered names instead of their schemas
get_all_functions_Names(schs) == [i \in 1 .. Len(schs) |-> schs[i][1]]

get_all_functions(schs) == DictValues(schs)

get_schemas(schs) == DictValues(schs)

\* create_agent() of the web application: three handlers, in this order
CreateAgentRegistry ==
    LET r1 == register(<< >>, << >>, "send_money", "payment.send_money",
                       "SEND_MONEY_SCHEMA")
        r2 == register(r1[1], r1[2], "check_balance", "payment.check_balance",
                       "CHECK_BALANCE_SCHEMA")
    IN  register(r2[1], r2[2], "get_transactions", "payment.get_transactions",
                 "GET_TRANSACTIONS_SCHEMA")

\* What a registered handler can do when it is called: return a success
\* payload, return an error payload, raise, or return a value json.dumps
\* cannot serialize.
HandlerOutcomes == {"success", "error_payload", "raises", "unserializable"}

HandlerFault == "TypeError: got an unexpected keyword argument"

\* the outcomes of the handlers bound to a payment provider: anything; for a
\* provider whose calls always succeed a success payload; for a PayPalAdapter
\* without credentials, whose authenticate() returns None, an error payload
HandlerOutcomesOf(provider) ==
    IF provider = "reliable" THEN {"success"}
    ELSE IF provider = "unauthenticated" THEN {"error_payload"}
    ELSE HandlerOutcomes

HandlerResult(outcome) ==
    CASE outcome = "success" ->
            [status |-> "success", message |-> << >>, serializable |-> TRUE]
      [] outcome = "error_payload" ->
            [status |-> "error", message |-> <<"insufficient funds">>,
             serializable |-> TRUE]
      [] OTHER ->
            [status |-> "success", message |-> << >>, serializable |-> FALSE]

\* execute that calls the handler a second time when the first call raised
execute_retry(fns, name, outcome) ==
    IF DictGet(fns, name) # None
    THEN [ran |-> Some(name), times |-> IF outcome = "raises" THEN 1 + 1 ELSE 1,
          raised |-> IF outcome = "raises" THEN Some(HandlerFault) ELSE None,
          value |-> HandlerResult(outcome)]
    ELSE [ran |-> None, times |-> 0, raised |-> None,
          value |-> [status |-> "error",
                     message |-> <<"Function ", name, " not found in PayPal sandbox">>,
                     serializable |-> TRUE]]

\* execute(name, arguments, payment_provider) when the handler, if called,
\* behaves as `outcome`: which handler ran and how often, whether the call
\* raised, and the value returned otherwise.
execute(fns, name, outcome) ==
    IF get_function(fns, name) # None
    THEN [ran |-> Some(name), times |-> 1,
          raised |-> IF outcome = "raises" THEN Some(HandlerFault) ELSE None,
          value |-> HandlerResult(outcome)]
    ELSE [ran |-> None, times |-> 0, raised |-> None,
          value |-> [status |-> "error",
                     message |-> <<"Function ", name, " not found in PayPal sandbox">>,
                     serializable |-> TRUE]]

(***************************************************************************)
(* json                                                                    *)
(***************************************************************************)
ARGS_OK == <<"{\"amount\": 1}">>
ARGS_BAD == <<"{\"amount\": ">>

JsonFault == "JSONDecodeError: Expecting value"
DumpsFault == "TypeError: Object is not JSON serializable"

\* json.loads(arguments_str)
json_loads(s) ==
    IF s = ARGS_OK
    THEN [raised |-> None, value |-> "mapping"]
    ELSE [raised |-> Some(JsonFault), value |-> "nothing"]

\* json.dumps(function_result)
json_dumps(v) ==
    IF v.serializable
    THEN [raised |-> None,
          text |-> <<"{\"status\": ", v.status, ", \"message\": ">> \o v.message \o <<"}">>]
    ELSE [raised |-> Some(DumpsFault), text |-> << >>]

\* json.dumps({"error": str(e), "status": "error"})
json_dumps_error(e) == <<"{\"error\": ", e, ", \"status\": ", "error", "}">>

(***************************************************************************)
(* LLMProvider.get_completion.  A response dict has the optional keys      *)
(* content, function_call and error.                                       *)
(***************************************************************************)
Response(content, function_call, error) ==
    [content |-> content, function_call |-> function_call, error |-> error]

RequestNames == {"send_money", "bogus"}
ArgumentStrings == {ARGS_OK, ARGS_BAD}
ToolRequests == [name : RequestNames, arguments : ArgumentStrings]

GatewayFault == "ConnectionError: gateway unreachable"
ProviderFault == "APIError: provider unavailable"

ADAPTER_ERROR_TEXT == <<"I encountered an error while processing your request.">>

\* str.strip(): leading and trailing whitespace tokens are dropped
RECURSIVE strip(_)
strip(s) ==
    IF s = << >> THEN s
    ELSE IF Head(s) = " " THEN strip(Tail(s))
    ELSE IF s[Len(s)] = " " THEN strip(SubSeq(s, 1, Len(s) - 1))
    ELSE s

\* What the provider call inside OpenAIAdapter.get_completion can do: fail,
\* or return a message with optional content and optional tool calls.
ProviderOutcomes ==
    [kind : {"fault"}, content : {None}, tool_calls : {None}]
    \cup [kind : {"message"},
          content : {None, Some(<<" ">>), Some(<<" ", "txt">>)},
          tool_calls : {None} \cup {Some(r) : r \in ToolRequests}]

\* The provider call of an OpenAIAdapter built without a usable API key
\* (empty or placeholder, which __init__ only logs): the provider rejects it.
UnconfiguredOutcomes == {o \in ProviderOutcomes : o.kind = "fault"}

\* OpenAIAdapter.get_completion(messages, functions) when the provider call
\* behaves as `o`; offered is the functions argument (None when omitted).
\* Every exception is caught and turned into a response.
openai_get_completion(o, offered) ==
    LET tools == IF offered # None /\ offered[1] # << >> THEN offered ELSE None
    IN  IF o.kind = "fault"
        THEN [raised |-> None, failed |-> TRUE,
              response |-> Response(Some(ADAPTER_ERROR_TEXT), None, Some(ProviderFault))]
        ELSE IF tools # None /\ o.tool_calls # None
        THEN [raised |-> None, failed |-> FALSE,
              response |-> Response(None, o.tool_calls, None)]
        ELSE [raised |-> None, failed |-> FALSE,
              response |-> Response(
                  Some(IF o.content # None /\ o.content[1] # << >>
                       THEN strip(o.content[1]) ELSE << >>),
                  None, None)]

\* Any other LLMProvider: get_completion raises, or returns a response dict:
\* text (possibly empty) or nothing, or a tool request with or without text
\* next to it.
StubOutcomes ==
    {[raised |-> Some(GatewayFault), failed |-> FALSE, response |-> Response(None, None, None)]}
    \cup {[raised |-> None, failed |-> FALSE, response |-> Response(c, None, None)] :
            c \in {None, Some(<< >>), Some(<<"txt">>)}}
    \cup {[raised |-> None, failed |-> FALSE, response |-> Response(c, Some(r), None)] :
            c \in {None, Some(<<"txt">>)}, r \in ToolRequests}

\* An LLMProvider that never raises and returns one of three responses: a
\* well-formed send_money request, a final text, or an empty response.
ScriptedOutcomes ==
    {[raised |-> None, failed |-> FALSE, response |-> r] :
        r \in {Response(None, Some([name |-> "send_money", arguments |-> ARGS_OK]), None),
               Response(Some(<<"txt">>), None, None),
               Response(None, None, None)}}

\* the outcomes of self.llm.get_completion(messages, functions)
get_completion(provider, offered) ==
    IF provider = "openai"
    THEN {openai_get_completion(o, offered) : o \in ProviderOutcomes}
    ELSE IF provider = "openai_unconfigured"
    THEN {openai_get_completion(o, offered) : o \in UnconfiguredOutcomes}
    ELSE IF provider = "scripted"
    THEN ScriptedOutcomes
    ELSE StubOutcomes

\* a test for the key only: "content" in r
HasText_KeyOnly(r) == r.content # None

\* Python: "content" in r and r["content"]
HasText(r) == r.content # None /\ r.content[1] # << >>

\* Python: "function_call" in r
HasFunctionCall(r) == r.function_call # None


(***************************************************************************)
(* PayPalReactAgent.process_message                                        *)
(***************************************************************************)
UserMessages == {<<"send 5 USD to bob">>}

AllNames == RequestNames \cup {"check_balance", "get_transactions"}

FALLBACK_TEXT ==
    <<"I've reached the maximum number of PayPal API calls I can make in sandbox mode for this request.">>
GENERIC_ERROR_TEXT ==
    <<"I encountered an error while processing your request in PayPal sandbox mode.">>
ERROR_PREFIX ==
    <<"I encountered an error while processing your request in PayPal sandbox mode: ">>

\* the dict process_message returns
Result(status, response, logs) ==
    [status |-> status, response |-> response, user_logs |-> logs]

\* an except clause that names the gateway's exception only
Caught_OnlyGatewayFault(e) == e = GatewayFault

\* "except Exception" catches every exception that derives from Exception,
\* as all the faults of this model do
Caught(e) == TRUE

\* an except block that also records its error message as an assistant turn
OuterExcept_RecordsError(e, logs, h) ==
    [logged |-> <<"Error processing request: ", e>>,
     result |-> Result("error", ERROR_PREFIX \o <<e>>,
                       Append(logs, <<"[SANDBOX] Error processing request">>)),
     history |-> Append(h, Message("assistant", ERROR_PREFIX \o <<e>>, None, 0))]

\* the outer "except Exception as e" block (lines 187-196): the text it
\* logs, the dict it returns, and the conversation, which it leaves as it is
OuterExcept(e, logs, h) ==
    [logged |-> <<"Error processing request: ", e>>,
     result |-> Result("error", ERROR_PREFIX \o <<e>>,
                       Append(logs, <<"[SANDBOX] Error processing request">>)),
     history |-> h]

\* a loop condition that lets one more pass through
LoopGuard_OffByOne(t, r) == t <= max_turns /\ HasFunctionCall(r)

\* a loop condition that admits a pass after the bound when text comes
\* with the request
LoopGuard_TextBypass(t, r) == (t < max_turns \/ HasText(r)) /\ HasFunctionCall(r)

\* the loop condition: turns < max_turns and "function_call" in current_response
LoopGuard(t, r) == t < max_turns /\ HasFunctionCall(r)

Bump(f, name, k) == [f EXCEPT ![name] = @ + k]

\* number of get_completion calls made by this process_message
gwCalls == Len(returned)

\* number of tool requests for `name` the gateway has returned
requested(name) ==
    Cardinality({i \in 1 .. Len(returned) :
        /\ returned[i].raised = None
        /\ HasFunctionCall(returned[i].response)
        /\ returned[i].response.function_call[1].name = name})

\* the chat requests the web application serves at the same time, one per
\* worker thread
Chats == {"chat1", "chat2"}

\* a chat request that has not called process_message yet
IdleChat ==
    [pc |-> "idle", next |-> "idle", turns |-> 0, current_response |-> None,
     pending |-> None, seen |-> None, status |-> None]

\* what every fresh object starts with: an empty store, no call in progress
InitCommon ==
    /\ history = << >>
    /\ now = 0
    /\ storeOps = 0
    /\ pc = "idle"
    /\ turns = 0
    /\ current_response = None
    /\ user_logs = << >>
    /\ result = None
    /\ log = {}
    /\ returned = << >>
    /\ lastCall = None
    /\ dispatched = 0
    /\ invoked = [n \in AllNames |-> 0]
    /\ fault = None
    /\ toolFailure = None
    /\ requests = 0
    /\ clearedAt = 0
    /\ regOps = 0
    /\ lastExec = None
    /\ listed = << >>
    /\ firstRegistration = << >>
    /\ projected = None
    /\ chats = [t \in Chats |-> IdleChat]
    /\ owners = << >>
    /\ resets = 0

\* create_agent() and PayPalReactAgent.__init__: any provider, any handlers
Init ==
    /\ InitCommon
    /\ max_history \in MaxHistories
    /\ llm \in {"openai", "stub"}
    /\ functions = CreateAgentRegistry[1]
    /\ schemas = CreateAgentRegistry[2]
    /\ payment = "arbitrary"

\* a process_message whose turn counter lives on from the previous call
process_message_KeepsCounter ==
    /\ pc = "idle"
    /\ \E user_message \in UserMessages :
          history' = add_message(history, max_history, "user", user_message, None, now)
    /\ now' = now + 1
    /\ user_logs' = <<<<"[SANDBOX] Processing request with PayPal REST API (sandbox mode only)">>>>
    /\ turns' = turns
    /\ pc' = "initial"
    /\ UNCHANGED otherVars
    /\ UNCHANGED <<max_history, storeOps, llm, functions, schemas, current_response,
                   result, log, returned, lastCall, dispatched, invoked, fault,
                   toolFailure>>

\* lines 57-75: record the user turn, start the logs, reset the counter
process_message ==
    /\ pc = "idle"
    /\ \E user_message \in UserMessages :
          history' = add_message(history, max_history, "user", user_message, None, now)
    /\ now' = now + 1
    /\ user_logs' = <<<<"[SANDBOX] Processing request with PayPal REST API (sandbox mode only)">>>>
    /\ turns' = 0
    /\ pc' = "initial"
    /\ UNCHANGED otherVars
    /\ UNCHANGED <<max_history, storeOps, llm, functions, schemas, current_response,
                   result, log, returned, lastCall, dispatched, invoked, fault,
                   toolFailure>>

\* an exception e reaches the outer try of process_message (lines 77, 187)
Raise(e) ==
    IF Caught(e)
    THEN /\ result' = Some(OuterExcept(e, user_logs, history).result)
         /\ log' = log \cup {OuterExcept(e, user_logs, history).logged}
         /\ history' = OuterExcept(e, user_logs, history).history
         /\ pc' = "done"
    ELSE /\ pc' = "raised"
         /\ UNCHANGED <<result, log, history>>

\* one self.llm.get_completion(messages=get_messages(), functions=offered)
\* call with outcome o, inside the outer try
Completion(o, offered) ==
    /\ returned' = Append(returned, o)
    /\ lastCall' = Some([messages |-> get_messages(history), functions |-> offered])
    /\ IF o.raised # None
       THEN /\ Raise(o.raised[1])
            /\ fault' = Some([history |-> history, gwCalls |-> gwCalls + 1,
                              dispatched |-> dispatched])
            /\ UNCHANGED current_response
       ELSE /\ current_response' = Some(o.response)
            /\ pc' = "loop"
            /\ UNCHANGED <<result, log, fault, history>>
    /\ UNCHANGED otherVars
    /\ UNCHANGED <<max_history, now, storeOps, llm, functions, schemas, turns,
                   user_logs, dispatched, invoked, toolFailure>>

\* lines 78-83: the initial completion, with the tool schemas
InitialCompletion ==
    /\ pc = "initial"
    /\ \E o \in get_completion(llm, Some(get_all_functions(schemas))) :
          Completion(o, Some(get_all_functions(schemas)))

\* lines 135-140: the follow-up completion after a tool result
FollowUpCompletion ==
    /\ pc = "followup"
    /\ \E o \in get_completion(llm, Some(get_all_functions(schemas))) :
          Completion(o, Some(get_all_functions(schemas)))

\* the exception of the inner try block, if any: raised by the handler, or
\* by json.dumps of what the handler returned
InnerException(r) ==
    IF r.raised # None THEN r.raised
    ELSE json_dumps(r.value).raised

\* an inner except block that swallows the exception and records nothing
RecordFunctionResult_Swallow(h, mh, function_name, r, t) ==
    IF InnerException(r) = None
    THEN add_message(h, mh, "function", json_dumps(r.value).text, Some(function_name), t)
    ELSE h

\* lines 114-133: the inner try / except records the outcome r of execute
\* as a function turn: the result, or the error of the exception
RecordFunctionResult(h, mh, function_name, r, t) ==
    IF InnerException(r) = None
    THEN add_message(h, mh, "function", json_dumps(r.value).text, Some(function_name), t)
    ELSE add_message(h, mh, "function", json_dumps_error(InnerException(r)[1]),
                     Some(function_name), t)

\* lines 97-133: user_logs after one pass of the loop body
LoopUserLogs(logs, name, r) ==
    LET l1 == Append(logs, <<"[SANDBOX] Executing action: ", name>>)
        l2 == IF r.raised = None
              THEN Append(l1, <<"[SANDBOX] Completed action: ", name>>)
              ELSE l1
    IN  IF InnerException(r) = None
        THEN l2
        ELSE Append(l2, <<"[SANDBOX] Error executing action: ", name>>)

\* logger.error calls of one pass of the loop body (registry and agent)
LoopErrorLog(name, r) ==
    (IF r.ran = None
     THEN {<<"[SANDBOX] Function ", name, " not found in registry">>}
     ELSE {})
    \cup
    (IF InnerException(r) # None
     THEN {<<"Error executing PayPal function ", name, ": ", InnerException(r)[1]>>}
     ELSE {})

\* how the tool call failed, None when it did not: the handler raised, its
\* result could not be serialized, it returned an error payload, or the
\* name is not registered
ToolFailureKind(r) ==
    IF r.raised # None THEN Some("raised")
    ELSE IF InnerException(r) # None THEN Some("unserializable")
    ELSE IF r.ran = None THEN Some("not_registered")
    ELSE IF r.value.status = "error" THEN Some("error_payload")
    ELSE None

\* lines 86-133: one pass of the loop body, up to the follow-up completion
ExecuteFunctionCall ==
    /\ pc = "loop"
    /\ LoopGuard(turns, current_response[1])
    /\ turns' = turns + 1
    /\ LET function_name == current_response[1].function_call[1].name
           arguments_str == current_response[1].function_call[1].arguments
           arguments == json_loads(arguments_str)
           assistant_content == IF current_response[1].content # None
                                THEN current_response[1].content[1]
                                ELSE << >>
           function_call_data == [name |-> function_name, arguments |-> arguments_str]
       IN  IF arguments.raised # None
           THEN \* json.loads raised (line 92), before anything was recorded
                /\ Raise(arguments.raised[1])
                /\ UNCHANGED <<now, user_logs, dispatched, invoked, toolFailure>>
           ELSE \E outcome \in HandlerOutcomesOf(payment) :
                LET h1 == add_function_call(history, max_history, "assistant",
                                            assistant_content, function_call_data, now)
                    r == execute(functions, function_name, outcome)
                IN  /\ history' = RecordFunctionResult(h1, max_history, function_name,
                                                       r, now + 1)
                    /\ now' = now + 2
                    /\ user_logs' = LoopUserLogs(user_logs, function_name, r)
                    /\ log' = log \cup LoopErrorLog(function_name, r)
                    /\ dispatched' = dispatched + 1
                    /\ invoked' = IF r.ran # None
                                  THEN Bump(invoked, r.ran[1], r.times)
                                  ELSE invoked
                    /\ toolFailure' = IF ToolFailureKind(r) # None
                                      THEN Some([name |-> function_name,
                                                 kind |-> ToolFailureKind(r)[1]])
                                      ELSE None
                    /\ pc' = "followup"
                    /\ UNCHANGED result
    /\ UNCHANGED otherVars
    /\ UNCHANGED <<max_history, storeOps, llm, functions, schemas, current_response,
                   returned, lastCall, fault>>

\* lines 142-156: the response has text: record it and return success
FinalResponse ==
    /\ pc = "loop"
    /\ ~LoopGuard(turns, current_response[1])
    /\ HasText(current_response[1])
    /\ LET assistant_message == current_response[1].content[1]
       IN  /\ history' = add_message(history, max_history, "assistant",
                                     assistant_message, None, now)
           /\ result' = Some(Result("success", assistant_message,
                                    Append(user_logs,
                                           <<"[SANDBOX] Request processed successfully">>)))
    /\ now' = now + 1
    /\ user_logs' = Append(user_logs, <<"[SANDBOX] Request processed successfully">>)
    /\ pc' = "done"
    /\ UNCHANGED otherVars
    /\ UNCHANGED <<max_history, storeOps, llm, functions, schemas, turns,
                   current_response, log, returned, lastCall, dispatched, invoked,
                   fault, toolFailure>>

\* lines 157-160: a tool request is pending and the turn bound is reached
MaxTurnsReached ==
    /\ pc = "loop"
    /\ ~LoopGuard(turns, current_response[1])
    /\ ~HasText(current_response[1])
    /\ HasFunctionCall(current_response[1]) /\ turns >= max_turns
    /\ log' = log \cup {<<"[SANDBOX] Maximum function calls (", "max_turns",
                          ") reached without final response">>}
    /\ user_logs' = Append(user_logs, <<"[SANDBOX] Maximum PayPal API calls reached">>)
    /\ pc' = "final"
    /\ UNCHANGED otherVars
    /\ UNCHANGED <<max_history, history, now, storeOps, llm, functions, schemas, turns,
                   current_response, result, returned, lastCall, dispatched, invoked,
                   fault, toolFailure>>

\* final_response.get("content", fallback)
ForcedMessage(final_response) ==
    IF final_response.content # None THEN final_response.content[1] ELSE FALLBACK_TEXT

\* lines 162-175: the forced completion without tool schemas
ForcedCompletion ==
    /\ pc = "final"
    /\ \E o \in get_completion(llm, None) :
          /\ returned' = Append(returned, o)
          /\ lastCall' = Some([messages |-> get_messages(history), functions |-> None])
          /\ IF o.raised # None
             THEN /\ Raise(o.raised[1])
                  /\ fault' = Some([history |-> history, gwCalls |-> gwCalls + 1,
                                    dispatched |-> dispatched])
                  /\ UNCHANGED now
             ELSE /\ history' = add_message(history, max_history, "assistant",
                                            ForcedMessage(o.response), None, now)
                  /\ now' = now + 1
                  /\ result' = Some(Result("warning", ForcedMessage(o.response), user_logs))
                  /\ pc' = "done"
                  /\ UNCHANGED <<log, fault>>
    /\ UNCHANGED otherVars
    /\ UNCHANGED <<max_history, storeOps, llm, functions, schemas, turns,
                   current_response, user_logs, dispatched, invoked, toolFailure>>

\* lines 176-185: neither text nor a pending tool request at the bound
UnexpectedFormat ==
    /\ pc = "loop"
    /\ ~LoopGuard(turns, current_response[1])
    /\ ~HasText(current_response[1])
    /\ ~(HasFunctionCall(current_response[1]) /\ turns >= max_turns)
    /\ log' = log \cup {<<"Unexpected response format from LLM">>}
    /\ user_logs' = Append(user_logs, <<"[SANDBOX] Error processing request">>)
    /\ result' = Some(Result("error", GENERIC_ERROR_TEXT,
                             Append(user_logs, <<"[SANDBOX] Error processing request">>)))
    /\ pc' = "done"
    /\ UNCHANGED otherVars
    /\ UNCHANGED <<max_history, history, now, storeOps, llm, functions, schemas, turns,
                   current_response, returned, lastCall, dispatched, invoked, fault,
                   toolFailure>>

Next ==
    \/ process_message
    \/ InitialCompletion
    \/ ExecuteFunctionCall
    \/ FollowUpCompletion
    \/ FinalResponse
    \/ MaxTurnsReached
    \/ ForcedCompletion
    \/ UnexpectedFormat

Spec == Init /\ [][Next]_vars

(***************************************************************************)
(* Direct use of the store: any sequence of calls on a fresh               *)
(* ConversationManager(max_history).                                       *)
(***************************************************************************)
StoreRoles == {"user", "assistant", "function"}
StoreContents == {<<"txt">>}
StoreNames == {None, Some("send_money")}
StoreCalls == {[name |-> "send_money", arguments |-> <<"{}">>]}

\* the store of a freshly built agent, which nothing else uses meanwhile
InitStore == Init /\ llm = "stub"

StoreAddMessage ==
    /\ storeOps < MaxStoreOps
    /\ \E role \in StoreRoles, content \in StoreContents, fn \in StoreNames :
          history' = add_message(history, max_history, role, content, fn, now)
    /\ now' = now + 1
    /\ storeOps' = storeOps + 1
    /\ UNCHANGED <<max_history, registryVars, agentVars, otherVars>>

StoreAddFunctionCall ==
    /\ storeOps < MaxStoreOps
    /\ \E content \in StoreContents, fc \in StoreCalls :
          history' = add_function_call(history, max_history, "assistant", content, fc, now)
    /\ now' = now + 1
    /\ storeOps' = storeOps + 1
    /\ UNCHANGED <<max_history, registryVars, agentVars, otherVars>>

StoreClear ==
    /\ storeOps < MaxStoreOps
    /\ history' = clear(history)
    /\ clearedAt' = now
    /\ storeOps' = storeOps + 1
    /\ UNCHANGED <<max_history, now, registryVars, agentVars, payment, requests,
                   regOps, lastExec, listingVars, projected, concVars>>

\* one get_messages() call: what it returned, and the store it was called on
StoreGetMessages ==
    /\ storeOps < MaxStoreOps
    /\ projected' = Some([messages |-> get_messages(history), store |-> history])
    /\ storeOps' = storeOps + 1
    /\ UNCHANGED <<max_history, history, now, registryVars, agentVars, payment,
                   requests, clearedAt, regOps, lastExec, listingVars, concVars>>

NextStore ==
    \/ StoreAddMessage
    \/ StoreAddFunctionCall
    \/ StoreClear
    \/ StoreGetMessages

SpecStore == InitStore /\ [][NextStore]_vars

(***************************************************************************)
(* One agent over several requests: process_message calls one after the    *)
(* other on the same agent, with clears of the conversation in between.    *)
(***************************************************************************)
InitSeq ==
    /\ InitCommon
    /\ max_history \in {MaxHistBound, DefaultMaxHistory}
    /\ llm = "scripted"
    /\ functions = CreateAgentRegistry[1]
    /\ schemas = CreateAgentRegistry[2]
    /\ payment = "reliable"

\* process_message returns its dict to the caller (lines 152, 171, 180,
\* 191): the agent can take the next message; the store stays, and what is
\* recorded about the call that returned starts afresh
Return ==
    /\ pc = "done"
    /\ requests < MaxRequests
    /\ requests' = requests + 1
    /\ pc' = "idle"
    /\ result' = None
    /\ user_logs' = << >>
    /\ log' = {}
    /\ returned' = << >>
    /\ lastCall' = None
    /\ dispatched' = 0
    /\ invoked' = [n \in AllNames |-> 0]
    /\ fault' = None
    /\ toolFailure' = None
    /\ UNCHANGED <<storeVars, registryVars, llm, turns, current_response, payment,
                   clearedAt, regOps, lastExec, listingVars, projected, concVars>>

\* PayPalReactAgent.clear_conversation, between two requests
clear_conversation ==
    /\ pc = "idle"
    /\ history' = clear(history)
    /\ clearedAt' = now
    /\ UNCHANGED <<max_history, now, storeOps, registryVars, agentVars, payment,
                   requests, regOps, lastExec, listingVars, projected, concVars>>

\* the /api/reset route, between two requests
reset_conversation ==
    /\ pc = "idle"
    /\ history' = clear(history)
    /\ clearedAt' = now
    /\ UNCHANGED <<max_history, now, storeOps, registryVars, agentVars, payment,
                   requests, regOps, lastExec, listingVars, projected, concVars>>

NextSeq ==
    \/ Next
    \/ Return
    \/ clear_conversation
    \/ reset_conversation

SpecSeq == InitSeq /\ [][NextSeq]_vars

(***************************************************************************)
(* The web application: create_agent() at import, under an environment     *)
(* with or without the model key and the payment credentials, then one     *)
(* chat request, which calls process_message on the global agent.          *)
(***************************************************************************)
InitWeb ==
    /\ InitCommon
    /\ max_history = DefaultMaxHistory
    /\ llm \in {"openai", "openai_unconfigured"}
    /\ functions = CreateAgentRegistry[1]
    /\ schemas = CreateAgentRegistry[2]
    /\ payment \in {"arbitrary", "unauthenticated"}

\* chat(): nothing but the process_message call changes the agent
NextWeb == Next

SpecWeb == InitWeb /\ [][NextWeb]_vars

(***************************************************************************)
(* The web application under its threaded server: chat requests and a      *)
(* reset request run at the same time on the global agent, with no lock.   *)
(* A thread can be preempted between any two statements, so an append to   *)
(* the store is three steps: self.history.append(message), the evaluation  *)
(* of len(self.history) > self.max_history and of the slice, and the        *)
(* assignment of the slice to self.history.                                *)
(***************************************************************************)
chatFrame == <<max_history, storeOps, registryVars, agentVars, payment, requests,
               regOps, lastExec, listingVars, projected>>

InitConc ==
    /\ InitCommon
    /\ max_history \in {MaxHistBound, DefaultMaxHistory}
    /\ llm = "scripted"
    /\ functions = CreateAgentRegistry[1]
    /\ schemas = CreateAgentRegistry[2]
    /\ payment = "reliable"

\* the responses of the gateway to a chat request that has made `done` tool
\* requests so far
ChatOutcomes(done) ==
    {o \in get_completion(llm, Some(get_all_functions(schemas))) :
        HasFunctionCall(o.response) => done < MaxChatTools}

\* self.history.append(message), by chat request t
AppendBy(t, message) ==
    /\ history' = Append(history, message)
    /\ now' = now + 1
    /\ owners' = Append(owners, t)

\* line 58: add_message("user", user_message), up to the append
ChatUserTurn(t) ==
    /\ chats[t].pc = "idle"
    /\ \E user_message \in UserMessages :
          AppendBy(t, Message("user", user_message, None, now))
    /\ chats' = [chats EXCEPT ![t].pc = "truncate", ![t].next = "initial"]
    /\ UNCHANGED <<chatFrame, clearedAt, resets>>

\* conversation.py lines 33-34 and 67-68, the right-hand side: the test and
\* the slice self.history[-self.max_history:]
ChatTruncate(t) ==
    /\ chats[t].pc = "truncate"
    /\ chats' = IF Len(history) > max_history
                THEN [chats EXCEPT ![t].pc = "assign",
                                   ![t].pending = Some(LastSlice(history, max_history))]
                ELSE [chats EXCEPT ![t].pc = chats[t].next]
    /\ UNCHANGED <<chatFrame, history, now, owners, clearedAt, resets>>

\* conversation.py lines 34 and 68, the assignment self.history = ...
ChatAssign(t) ==
    /\ chats[t].pc = "assign"
    /\ history' = chats[t].pending[1]
    /\ chats' = [chats EXCEPT ![t].pc = chats[t].next, ![t].pending = None]
    /\ UNCHANGED <<chatFrame, now, owners, clearedAt, resets>>

\* lines 80-83 and 137-140: a completion over get_messages() of the store;
\* seen keeps the stored turns the messages were projected from
ChatCompletion(t) ==
    /\ chats[t].pc \in {"initial", "followup"}
    /\ \E o \in ChatOutcomes(chats[t].turns) :
          chats' = [chats EXCEPT ![t].pc = "loop",
                                 ![t].current_response = Some(o.response),
                                 ![t].seen = Some(history)]
    /\ UNCHANGED <<chatFrame, history, now, owners, clearedAt, resets>>

\* lines 86-112: the loop takes up the request and appends the assistant
\* turn that carries it
ChatRequestTurn(t) ==
    /\ chats[t].pc = "loop"
    /\ LoopGuard(chats[t].turns, chats[t].current_response[1])
    /\ LET r == chats[t].current_response[1]
           arguments_str == r.function_call[1].arguments
       IN  IF json_loads(arguments_str).raised # None
           THEN /\ chats' = [chats EXCEPT ![t].pc = "done", ![t].status = Some("error"),
                                          ![t].turns = chats[t].turns + 1]
                /\ UNCHANGED <<history, now, owners>>
           ELSE /\ AppendBy(t, FunctionCallMessage(
                                   "assistant",
                                   IF r.content # None THEN r.content[1] ELSE << >>,
                                   [name |-> r.function_call[1].name,
                                    arguments |-> arguments_str],
                                   now))
                /\ chats' = [chats EXCEPT ![t].pc = "truncate", ![t].next = "execute",
                                          ![t].turns = chats[t].turns + 1]
    /\ UNCHANGED <<chatFrame, clearedAt, resets>>

\* the content of the function turn for the outcome r of execute
FunctionTurnContent(r) ==
    IF InnerException(r) = None
    THEN json_dumps(r.value).text
    ELSE json_dumps_error(InnerException(r)[1])

\* lines 114-133: execute, and the append of the function turn
ChatResultTurn(t) ==
    /\ chats[t].pc = "execute"
    /\ \E outcome \in HandlerOutcomesOf(payment) :
          LET function_name == chats[t].current_response[1].function_call[1].name
              r == execute(functions, function_name, outcome)
          IN  AppendBy(t, Message("function", FunctionTurnContent(r),
                                  Some(function_name), now))
    /\ chats' = [chats EXCEPT ![t].pc = "truncate", ![t].next = "followup"]
    /\ UNCHANGED <<chatFrame, clearedAt, resets>>

\* lines 142-185: after the loop: the final answer is appended (success),
\* or the forced completion is made and its text appended (warning), or the
\* response has an unexpected format (error)
ChatExit(t) ==
    /\ chats[t].pc = "loop"
    /\ ~LoopGuard(chats[t].turns, chats[t].current_response[1])
    /\ LET r == chats[t].current_response[1]
       IN  IF HasText(r)
           THEN /\ AppendBy(t, Message("assistant", r.content[1], None, now))
                /\ chats' = [chats EXCEPT ![t].pc = "truncate", ![t].next = "done",
                                          ![t].status = Some("success")]
           ELSE IF HasFunctionCall(r) /\ chats[t].turns >= max_turns
           THEN \E o \in get_completion(llm, None) :
                   /\ AppendBy(t, Message("assistant", ForcedMessage(o.response),
                                          None, now))
                   /\ chats' = [chats EXCEPT ![t].pc = "truncate", ![t].next = "done",
                                             ![t].status = Some("warning"),
                                             ![t].seen = Some(history)]
           ELSE /\ chats' = [chats EXCEPT ![t].pc = "done", ![t].status = Some("error")]
                /\ UNCHANGED <<history, now, owners>>
    /\ UNCHANGED <<chatFrame, clearedAt, resets>>

\* the /api/reset route served by another thread: conversation.clear()
ResetRequest ==
    /\ resets < MaxResets
    /\ history' = clear(history)
    /\ clearedAt' = now
    /\ resets' = resets + 1
    /\ UNCHANGED <<chatFrame, now, chats, owners>>

NextConc ==
    \/ \E t \in Chats :
          \/ ChatUserTurn(t)
          \/ ChatTruncate(t)
          \/ ChatAssign(t)
          \/ ChatCompletion(t)
          \/ ChatRequestTurn(t)
          \/ ChatResultTurn(t)
          \/ ChatExit(t)
    \/ ResetRequest

SpecConc == InitConc /\ [][NextConc]_vars

(***************************************************************************)
(* Direct use of the registry: any sequence of register and execute calls  *)
(* on a fresh FunctionRegistry().                                          *)
(***************************************************************************)
RegistryFuncs == {"payment.send_money", "payment.check_balance"}
RegistrySchemas == {"SEND_MONEY_SCHEMA", "CHECK_BALANCE_SCHEMA"}

\* FunctionRegistry.__init__: both dicts empty
InitRegistry ==
    /\ InitCommon
    /\ max_history = DefaultMaxHistory
    /\ llm = "stub"
    /\ functions = << >>
    /\ schemas = << >>
    /\ payment = "arbitrary"

RegistryRegister ==
    /\ regOps < MaxRegistryOps
    /\ \E name \in RequestNames, func \in RegistryFuncs, schema \in RegistrySchemas :
          /\ functions' = register(functions, schemas, name, func, schema)[1]
          /\ schemas' = register(functions, schemas, name, func, schema)[2]
          /\ firstRegistration' =
                IF \E k \in 1 .. Len(firstRegistration) : firstRegistration[k][1] = name
                THEN firstRegistration
                ELSE Append(firstRegistration, <<name, func, schema>>)
    /\ listed' = << >>
    /\ regOps' = regOps + 1
    /\ UNCHANGED <<storeVars, agentVars, payment, requests, clearedAt, lastExec,
                   projected, concVars>>

\* one execute(name, arguments, payment_provider) call; lastExec keeps the
\* name, whether it was registered, the outcome and the handler counts as
\* they were before the call
RegistryExecute ==
    /\ regOps < MaxRegistryOps
    /\ \E name \in RequestNames, outcome \in HandlerOutcomes :
          LET r == execute(functions, name, outcome)
          IN  /\ lastExec' = Some([name |-> name,
                                   registered |-> name \in DictKeys(functions),
                                   outcome |-> r,
                                   invokedBefore |-> invoked])
              /\ invoked' = IF r.ran # None THEN Bump(invoked, r.ran[1], r.times)
                            ELSE invoked
              /\ log' = log \cup (IF r.ran = None
                                  THEN {<<"[SANDBOX] Function ", name,
                                          " not found in registry">>}
                                  ELSE {})
    /\ regOps' = regOps + 1
    /\ UNCHANGED <<storeVars, registryVars, llm, pc, turns, current_response,
                   user_logs, result, returned, lastCall, dispatched, fault,
                   toolFailure, payment, requests, clearedAt, listingVars,
                   projected, concVars>>

\* one get_all_functions() call: the listing it returns is recorded
RegistryGetAllFunctions ==
    /\ regOps < MaxRegistryOps
    /\ listed' = Append(listed, get_all_functions(schemas))
    /\ regOps' = regOps + 1
    /\ UNCHANGED <<storeVars, registryVars, agentVars, payment, requests, clearedAt,
                   lastExec, firstRegistration, projected, concVars>>

\* one get_schemas() call
RegistryGetSchemas ==
    /\ regOps < MaxRegistryOps
    /\ listed' = Append(listed, get_schemas(schemas))
    /\ regOps' = regOps + 1
    /\ UNCHANGED <<storeVars, registryVars, agentVars, payment, requests, clearedAt,
                   lastExec, firstRegistration, projected, concVars>>

NextRegistry ==
    \/ RegistryRegister
    \/ RegistryExecute
    \/ RegistryGetAllFunctions
    \/ RegistryGetSchemas

SpecRegistry == InitRegistry /\ [][NextRegistry]_vars

(***************************************************************************)
(* Properties                                                              *)
(***************************************************************************)
Tokens(text) == {text[i] : i \in 1 .. Len(text)}

ExceptionTexts == {GatewayFault, ProviderFault, JsonFault, HandlerFault, DumpsFault}

Statuses == {"success", "warning", "error"}

\* every completion of this call returned a tool request
AlwaysToolRequest ==
    /\ returned # << >>
    /\ \A i \in 1 .. Len(returned) :
          returned[i].raised = None /\ HasFunctionCall(returned[i].response)

\* ... whose arguments deserialize and which has no text next to it
AlwaysCleanToolRequest ==
    /\ AlwaysToolRequest
    /\ \A i \in 1 .. Len(returned) :
          /\ ~HasText(returned[i].response)
          /\ json_loads(returned[i].response.function_call[1].arguments).raised = None

\* the loop took up a tool request whose arguments do not deserialize
MalformedTaken ==
    /\ current_response # None
    /\ HasFunctionCall(current_response[1])
    /\ json_loads(current_response[1].function_call[1].arguments).raised # None
    /\ turns > dispatched

\* the last stored turn is a function turn for `name` that carries an error
LastTurnIsErrorOf(name) ==
    /\ history # << >>
    /\ history[Len(history)].role = "function"
    /\ history[Len(history)].name = Some(name)
    /\ "error" \in Tokens(history[Len(history)].content)

\* C1 (as claimed): after every add_message / add_function_call the store
\* holds at most max_history turns, for every max_history >= 0.
C1_StoreWithinMaxHistory == Len(history) <= max_history

C3_NoDispatchAtBound ==
    [][/\ dispatched' <= max_turns
       /\ turns >= max_turns =>
            /\ dispatched' = dispatched
            /\ invoked' = invoked
            /\ \A i \in 1 .. Len(history') :
                  history'[i].function_call # None => history'[i].timestamp < now]_vars

C3_Witness ==
    /\ pc = "done"
    /\ turns = max_turns
    /\ dispatched = max_turns
    /\ HasFunctionCall(current_response[1])

\* C4 (as claimed): when the arguments of a tool request the loop took up do
\* not deserialize, the failure is recorded as an error function turn and the
\* call goes on to the next completion instead of returning status error.
C4_MalformedArgumentsRecorded ==
    MalformedTaken
        => /\ ~(pc = "done" /\ result[1].status = "error")
           /\ LastTurnIsErrorOf(current_response[1].function_call[1].name)

\* C5: after a tool-level failure (handler raised, result not recordable,
\* error payload, name not registered) the store ends with a function turn
\* tagged with the tool name that carries the error, the call has not
\* returned but goes on to the follow-up completion, whose messages end with
\* that error turn; and a status error is only ever returned for a gateway
\* fault, undeserializable arguments or a response with neither text nor
\* tool request.
C5_ToolFailureFedBack ==
    /\ (toolFailure # None /\ pc = "followup")
          => /\ LastTurnIsErrorOf(toolFailure[1].name)
             /\ toolFailure[1].kind = "raised"
                   => HandlerFault \in Tokens(history[Len(history)].content)
             /\ result = None
    /\ (toolFailure # None /\ pc # "followup")
          => /\ lastCall # None
             /\ lastCall[1].messages # << >>
             /\ LET m == lastCall[1].messages[Len(lastCall[1].messages)]
                IN  /\ m.role = "function"
                    /\ m.name = Some(toolFailure[1].name)
                    /\ "error" \in Tokens(m.content)
    /\ (pc = "done" /\ result[1].status = "error")
          => \/ fault # None
             \/ MalformedTaken
             \/ (~HasText(current_response[1]) /\ ~HasFunctionCall(current_response[1]))

C5_Witness ==
    /\ toolFailure # None
    /\ toolFailure[1].kind = "raised"
    /\ pc = "loop"
    /\ gwCalls = 2
    /\ lastCall[1].messages[Len(lastCall[1].messages)].role = "function"

\* the provider call failed inside get_completion during this call
ProviderFailed == \E i \in 1 .. Len(returned) : returned[i].failed

\* C6 (as claimed): a provider failure inside get_completion makes
\* process_message return status error, and no assistant turn carries the
\* failure text.
C6_ProviderFailureIsError ==
    (pc = "done" /\ ProviderFailed)
        => /\ result[1].status = "error"
           /\ \A i \in 1 .. Len(history) :
                 ~(history[i].role = "assistant" /\ history[i].content = ADAPTER_ERROR_TEXT)

\* C7: when a completion raises, process_message returns status error at
\* once: no further completion, no further dispatch, and the store is what it
\* was at the fault, with the user turn first when nothing was evicted.
C7_GatewayFaultAborts ==
    fault # None
        => /\ pc = "done"
           /\ result # None
           /\ result[1].status = "error"
           /\ history = fault[1].history
           /\ gwCalls = fault[1].gwCalls
           /\ dispatched = fault[1].dispatched
           /\ returned[Len(returned)].raised # None
           /\ now <= max_history
                 => /\ Len(history) = now
                    /\ history[1].role = "user"
                    /\ history[1].content \in UserMessages

C7_Witness ==
    /\ fault # None
    /\ dispatched >= 1
    /\ Len(history) = 3
    /\ pc = "done"

\* C8 (as claimed): the response text returned to the user never contains
\* the text of an exception.
C8_NoExceptionTextInResponse ==
    pc = "done" => Tokens(result[1].response) \cap ExceptionTexts = {}

\* C9: process_message never raises and never gets stuck: whatever the
\* gateway and the handlers do, every step short of the return can go on,
\* and the call returns a status of success, warning or error together with
\* a response text.
C9_AlwaysReturnsStatus ==
    /\ pc # "raised"
    /\ pc \in {"initial", "loop", "followup", "final"} => (result = None /\ ENABLED Next)
    /\ pc = "done"
          => /\ result # None
             /\ result[1].status \in Statuses
             /\ result[1].response \in Seq(STRING)

C9_Witness ==
    /\ pc = "done"
    /\ MalformedTaken
    /\ result[1].status = "error"

\* C10: a handler runs at most once per tool request the gateway returned:
\* for every tool, send_money included, the invocations never exceed the
\* requests, and the dispatches never exceed the completions that returned.
C10_NoAutoRetry ==
    /\ \A n \in AllNames : invoked[n] <= requested(n)
    /\ dispatched <= gwCalls

C10_Witness ==
    /\ toolFailure # None
    /\ toolFailure[1].name = "send_money"
    /\ toolFailure[1].kind \in {"raised", "unserializable"}
    /\ invoked["send_money"] = 2
    /\ requested("send_money") = 2

\* C11 (as claimed): every function-role turn in the store carries a tool
\* name and comes right after an assistant turn whose tool request names the
\* same tool, for every max_history.
C11_ToolTurnFollowsItsRequest ==
    \A i \in 1 .. Len(history) :
        history[i].role = "function"
            => /\ history[i].name # None
               /\ i > 1
               /\ history[i - 1].role = "assistant"
               /\ history[i - 1].function_call # None
               /\ history[i - 1].function_call[1].name = history[i].name[1]

\* the completions of this call that offered the tool schemas: the initial
\* one and the follow-ups, which are the first max_turns + 1 at most
SchemaCalls ==
    1 .. (IF Len(returned) < max_turns + 1 THEN Len(returned) ELSE max_turns + 1)

\* every completion that offered the tool schemas returned a tool request
ToolRequestOnEverySchemaCall ==
    /\ returned # << >>
    /\ \A i \in SchemaCalls :
          returned[i].raised = None /\ HasFunctionCall(returned[i].response)

\* the text of a response, empty when it has none
TextOf(r) == IF r.content # None THEN r.content[1] ELSE << >>

\* C13 (as claimed): when every completion that offers the tool schemas
\* returns a tool request, process_message dispatches exactly max_turns
\* tools, then makes exactly one completion that offers no schemas, appends
\* its text as the final assistant turn and returns status warning.
C13_BoundThenForcedFinal ==
    (pc = "done" /\ ToolRequestOnEverySchemaCall /\ fault = None)
        => /\ dispatched = max_turns
           /\ gwCalls = max_turns + 2
           /\ lastCall[1].functions = None
           /\ result[1].status = "warning"
           /\ history # << >>
           /\ history[Len(history)].role = "assistant"
           /\ history[Len(history)].function_call = None
           /\ HasText(returned[Len(returned)].response)
                 => history[Len(history)].content = TextOf(returned[Len(returned)].response)

\* the call ended at the turn bound with a tool request pending, and no
\* completion raised
EndedAtBoundWithRequestPending ==
    /\ pc = "done"
    /\ dispatched = max_turns
    /\ HasFunctionCall(current_response[1])
    /\ fault = None

\* C14 (as claimed): a call that ends at the turn bound with a tool request
\* still pending returns status warning, also when the pending response has
\* text next to the request.
C14_BoundExhaustionIsWarning ==
    EndedAtBoundWithRequestPending => result[1].status = "warning"

\* C15 (as claimed): on turn-bound exhaustion the response is the text of the
\* forced completion when that is non-empty and the fixed fallback string
\* when the forced completion has no text (absent or empty); the same text is
\* the final assistant turn, and it is never empty.
C15_ForcedTextOrFallback ==
    (pc = "done" /\ result[1].status = "warning")
        => LET forced == returned[Len(returned)].response
           IN  /\ result[1].response = (IF HasText(forced) THEN TextOf(forced)
                                        ELSE FALLBACK_TEXT)
               /\ history # << >>
               /\ history[Len(history)].role = "assistant"
               /\ history[Len(history)].content = result[1].response
               /\ result[1].response # << >>

\* the first completion returned a final answer: text and no tool request
FirstIsFinalAnswer ==
    /\ returned # << >>
    /\ returned[1].raised = None
    /\ HasText(returned[1].response)
    /\ ~HasFunctionCall(returned[1].response)

\* C16: from an empty store with max_history >= 2, when the first completion
\* is a final answer the call makes that one completion only, dispatches and
\* invokes nothing, returns status success with exactly that text, and the
\* store is the user turn followed by the assistant turn with that text.
C16_DirectAnswer ==
    (FirstIsFinalAnswer /\ max_history >= 2)
        => /\ gwCalls = 1
           /\ dispatched = 0
           /\ \A n \in AllNames : invoked[n] = 0
           /\ pc \in {"loop", "done"}
           /\ pc = "done"
                 => /\ result[1].status = "success"
                    /\ result[1].response = TextOf(returned[1].response)
                    /\ Len(history) = 2
                    /\ history[1].role = "user"
                    /\ history[1].content \in UserMessages
                    /\ history[1].function_call = None
                    /\ history[2].role = "assistant"
                    /\ history[2].content = TextOf(returned[1].response)
                    /\ history[2].function_call = None
                    /\ history[2].name = None

C16_Witness ==
    /\ FirstIsFinalAnswer
    /\ max_history = 2
    /\ pc = "done"
    /\ Len(history) = 2
    /\ result[1].status = "success"

\* the completions were k tool requests followed by a final answer
RequestsThenFinalAnswer(k) ==
    /\ Len(returned) = k + 1
    /\ \A i \in 1 .. k :
          returned[i].raised = None /\ HasFunctionCall(returned[i].response)
    /\ returned[k + 1].raised = None
    /\ HasText(returned[k + 1].response)
    /\ ~HasFunctionCall(returned[k + 1].response)

\* C17: from an empty store with enough capacity, k tool
\* requests (1 <= k <= max_turns) followed by a final text give status
\* success with that text and a store of 2k + 2 turns: the user turn, an
\* assistant request turn and a function turn per request, the final
\* assistant turn.
C17_ToolRoundTripStore ==
    \A k \in 1 .. max_turns :
        (pc = "done" /\ max_history = DefaultMaxHistory /\ RequestsThenFinalAnswer(k))
            => /\ result[1].status = "success"
               /\ result[1].response = TextOf(returned[k + 1].response)
               /\ Len(history) = 2 * k + 2
               /\ history[1].role = "user"
               /\ \A j \in 1 .. k :
                     /\ history[2 * j].role = "assistant"
                     /\ history[2 * j].function_call
                           = returned[j].response.function_call
                     /\ history[2 * j + 1].role = "function"
                     /\ history[2 * j + 1].name
                           = Some(returned[j].response.function_call[1].name)
               /\ history[2 * k + 2].role = "assistant"
               /\ history[2 * k + 2].content = TextOf(returned[k + 1].response)

C17_Witness ==
    /\ pc = "done"
    /\ max_history = DefaultMaxHistory
    /\ RequestsThenFinalAnswer(max_turns)
    /\ Len(history) = 2 * max_turns + 2
    /\ result[1].status = "success"

\* number of turns appended since the last clear
appendedSinceClear == now - clearedAt

\* C12 (as claimed): after k appends since the last clear the store holds
\* exactly the min(k, max_history) most recently appended turns, in the order
\* in which they were appended, none missing in between.
C12_KeepsNewestTurns ==
    LET k == appendedSinceClear
        n == IF k < max_history THEN k ELSE max_history
    IN  /\ Len(history) = n
        /\ \A i \in 1 .. Len(history) :
              history[i].timestamp = now - Len(history) + i - 1

\* the latest execute call was for a name that was not registered
UnknownDispatched == lastExec # None /\ ~lastExec[1].registered

FunctionTurns == Cardinality({i \in 1 .. Len(history) : history[i].role = "function"})

\* C19: the turn counter is per request: every process_message call starts
\* with a counter of zero and nothing dispatched, the counter is the number
\* of tools the current call has dispatched and never passes max_turns, and
\* a call that has a tool request pending and has dispatched fewer than
\* max_turns tools can dispatch it, however many tools the earlier calls
\* on the same agent dispatched.
C19_CounterPerRequest ==
    /\ pc = "initial" => (turns = 0 /\ dispatched = 0)
    /\ pc \in {"initial", "loop", "followup", "final", "done"} => turns = dispatched
    /\ turns <= max_turns
    /\ (pc = "loop" /\ HasFunctionCall(current_response[1]) /\ dispatched < max_turns)
          => ENABLED ExecuteFunctionCall

\* the second call dispatched max_turns tools after the first call had
\* dispatched max_turns tools as well
C19_Witness ==
    /\ requests = 1
    /\ pc = "done"
    /\ dispatched = max_turns
    /\ max_history = DefaultMaxHistory
    /\ clearedAt = 0
    /\ FunctionTurns = 2 * max_turns

\* C20: right after a clear (clear_conversation or the reset route) the
\* store is empty and get_messages() is the empty sequence, whatever was
\* stored before; every stored turn was appended after the last clear, and
\* the messages a completion of a following process_message receives are
\* the projection of those turns only.
C20_ClearEmptiesStore ==
    /\ now = clearedAt => (history = << >> /\ get_messages(history) = << >>)
    /\ \A i \in 1 .. Len(history) : history[i].timestamp >= clearedAt
    /\ pc = "loop"
          => /\ lastCall # None
             /\ lastCall[1].messages = get_messages(history)
             /\ Len(lastCall[1].messages) <= appendedSinceClear

\* a call after a clear of a store that held a whole tool round trip: its
\* first completion got the new user turn only
C20_Witness ==
    /\ requests >= 1
    /\ clearedAt >= 4
    /\ pc = "loop"
    /\ gwCalls = 1
    /\ lastCall[1].messages
          = <<[role |-> "user", content |-> <<"send 5 USD to bob">>, name |-> None]>>

\* the schemas now bound to the names, in the order of first registration
SchemasByFirstRegistration ==
    [k \in 1 .. Len(firstRegistration) |-> DictGet(schemas, firstRegistration[k][1])[1]]

\* C22: the listings returned with no register call in between are all the
\* same sequence, which has the schemas in the order in which their names
\* were first registered, and a listing call leaves the registry as it was.
C22_ListingIdempotentOrdered ==
    [][listed' # << >>
          => /\ \A i \in 1 .. Len(listed') :
                   /\ listed'[i] = listed'[1]
                   /\ listed'[i] = SchemasByFirstRegistration'
             /\ listed' # listed => UNCHANGED registryVars]_vars

C22_Witness ==
    /\ Len(listed) = 2
    /\ Len(listed[1]) = 2
    /\ listed[1] = listed[2]
    /\ listed[1][1] # listed[1][2]

\* no name is bound twice in a dict
UniqueKeys(d) == \A i, j \in 1 .. Len(d) : d[i][1] = d[j][1] => i = j

\* C23 (as claimed): after any sequence of register calls every name appears
\* at most once in the registry and in the listing, and each name is still
\* bound to the handler and the schema of its first registration.
C23_DescriptorImmutable ==
    /\ UniqueKeys(functions)
    /\ UniqueKeys(schemas)
    /\ Len(get_all_functions(schemas)) = Cardinality(DictKeys(schemas))
    /\ \A k \in 1 .. Len(firstRegistration) :
          /\ get_function(functions, firstRegistration[k][1]) = Some(firstRegistration[k][2])
          /\ DictGet(schemas, firstRegistration[k][1]) = Some(firstRegistration[k][3])

\* C27: get_messages() returns one entry per stored turn, in the order of
\* the store, each with the role and the content of its turn and with the
\* tool name exactly when the turn has one; the call leaves the store as it
\* was.
C27_ProjectionPreservesTurns ==
    [][projected' # projected
          => /\ history' = history
             /\ projected'[1].store = history
             /\ Len(projected'[1].messages) = Len(history)
             /\ \A i \in 1 .. Len(history) :
                   /\ projected'[1].messages[i].role = history[i].role
                   /\ projected'[1].messages[i].content = history[i].content
                   /\ projected'[1].messages[i].name = history[i].name]_vars

C27_Witness ==
    /\ projected # None
    /\ Len(projected[1].messages) = 3
    /\ \E i \in 1 .. 3 : projected[1].store[i].function_call # None
    /\ \E i \in 1 .. 3 : projected[1].messages[i].name # None
    /\ \E i \in 1 .. 3 : projected[1].messages[i].name = None

\* the loop takes up the pending tool request in this state
RequestAccepted == pc = "loop" /\ LoopGuard(turns, current_response[1])

\* C25 (as claimed): for every tool request accepted under the bound, with
\* room in the store, the step appends the assistant turn that carries the
\* request (name and raw argument string), dispatches once, appends exactly
\* one function turn tagged with that name after it, and leads to the next
\* completion: two turns more, whether the handler returns or raises.
C25_RequestThenResultThenCompletion ==
    [][(RequestAccepted /\ max_history = DefaultMaxHistory)
          => LET fc == current_response[1].function_call[1]
                 n == Len(history)
             IN  /\ Len(history') = n + 2
                 /\ SubSeq(history', 1, n) = history
                 /\ history'[n + 1].role = "assistant"
                 /\ history'[n + 1].function_call = Some(fc)
                 /\ history'[n + 2].role = "function"
                 /\ history'[n + 2].name = Some(fc.name)
                 /\ history'[n + 1].timestamp < history'[n + 2].timestamp
                 /\ dispatched' = dispatched + 1
                 /\ \A name \in AllNames :
                       invoked'[name] <= invoked[name] + 1
                 /\ returned' = returned
                 /\ pc' = "followup"]_vars

\* number of function-role entries in a message sequence
FunctionMessages(ms) == Cardinality({i \in 1 .. Len(ms) : ms[i].role = "function"})

\* C26: every completion receives get_messages() of the store as it is at
\* that moment; the initial completion and the follow-ups receive the full
\* list of registered schemas, and the forced final completion, and only
\* that one, receives none. When nothing is evicted the messages hold one
\* function entry per tool dispatched so far in this request.
C26_FullProjectionAndSchemas ==
    [][returned' # returned
          => /\ lastCall'[1].messages = get_messages(history)
             /\ Len(lastCall'[1].messages) = Len(history)
             /\ pc \in {"initial", "followup"}
                   => /\ lastCall'[1].functions = Some(DictValues(schemas))
                      /\ Len(DictValues(schemas)) = Cardinality(DictKeys(functions))
             /\ pc = "final" <=> lastCall'[1].functions = None
             /\ max_history = DefaultMaxHistory
                   => /\ FunctionMessages(lastCall'[1].messages) = dispatched
                      /\ Len(lastCall'[1].messages) = 1 + 2 * dispatched]_vars

C26_Witness ==
    /\ pc = "loop"
    /\ gwCalls = max_turns
    /\ dispatched = max_turns - 1
    /\ max_history = DefaultMaxHistory
    /\ FunctionMessages(lastCall[1].messages) = max_turns - 1
    /\ lastCall[1].functions = Some(DictValues(schemas))

\* turns appended since the user turn of the current request, itself included,
\* when its latest completion was requested
SinceUserTurn == 1 + 2 * dispatched

\* the latest completion of the current request got the request's user turn
UserTurnSent ==
    LET ms == lastCall[1].messages
        k == Len(ms) - 2 * dispatched
    IN  /\ k >= 1
        /\ ms[k].role = "user"
        /\ ms[k].content \in UserMessages

\* the latest gateway call is one of the current request, with the current
\* count of dispatched tools
CallOfThisRequest == pc \in {"loop", "final", "done"} /\ lastCall # None

\* C28 (as claimed): for every max_history >= 1 and any prior history, every
\* gateway call of a process_message call has that call's user turn in its
\* messages.
C28_UserTurnAlwaysSent ==
    (CallOfThisRequest /\ max_history >= 1) => UserTurnSent

\* C28 (amended): for every max_history >= 1 and any prior history, a
\* gateway call of a process_message call has that call's user turn in its
\* messages exactly when at most max_history turns were appended since that
\* user turn, itself included (one plus two per tool dispatched so far);
\* otherwise the user turn was evicted and the messages are newer turns only.
C28_UserTurnSentWhileStored ==
    (CallOfThisRequest /\ max_history >= 1)
        => IF SinceUserTurn <= max_history
           THEN UserTurnSent
           ELSE /\ ~UserTurnSent
                /\ Len(lastCall[1].messages) = max_history
                /\ Len(lastCall[1].messages) < SinceUserTurn

C28_Witness ==
    /\ requests >= 1
    /\ clearedAt = 0
    /\ pc = "loop"
    /\ dispatched = max_turns
    /\ max_history = DefaultMaxHistory
    /\ Len(lastCall[1].messages) > SinceUserTurn
    /\ UserTurnSent

\* a completion that returned a response without text and without a tool
\* request
NeitherTextNorRequest(o) ==
    /\ o.raised = None
    /\ o.response.content = None \/ o.response.content[1] = << >>
    /\ o.response.function_call = None

\* what C29 says of the completion number i when it returned neither: it is
\* the latest completion, and the call returns status error with the generic
\* message and a store that ends with the user turn or the latest function
\* turn of this request
EndsAsUnexpectedFormat(i) ==
    /\ i = Len(returned)
    /\ pc \in {"loop", "done"}
    /\ pc = "done"
          => /\ result[1].status = "error"
             /\ result[1].response = GENERIC_ERROR_TEXT
             /\ history # << >>
             /\ history[Len(history)].timestamp = now - 1
             /\ IF dispatched = 0
                THEN history[Len(history)].role = "user"
                ELSE history[Len(history)].role = "function"

\* C29 (as claimed): whenever a gateway response has neither non-empty text
\* nor a tool request, process_message returns status error with the generic
\* message, makes no further gateway call and appends no assistant turn.
C29_EmptyResponseIsError ==
    \A i \in 1 .. Len(returned) :
        NeitherTextNorRequest(returned[i]) => EndsAsUnexpectedFormat(i)

\* C29 (amended): the same for the response to a gateway call that offers
\* the tool schemas, that is the initial call and the follow-ups; on the
\* forced final call such a response gives status warning and an assistant
\* turn (C15).
C29_EmptyLoopResponseIsError ==
    \A i \in SchemaCalls :
        NeitherTextNorRequest(returned[i]) => EndsAsUnexpectedFormat(i)

C29_Witness ==
    /\ pc = "done"
    /\ llm = "openai"
    /\ dispatched = 1
    /\ NeitherTextNorRequest(returned[Len(returned)])
    /\ result[1].status = "error"
    /\ history[Len(history)].role = "function"

\* the application was started without the model key or without the payment
\* credentials
MissingCredentials == llm = "openai_unconfigured" \/ payment = "unauthenticated"

\* C24 (as claimed): with credentials missing a chat request is rejected
\* before the loop starts: no gateway call, no dispatch, no turn in the
\* store, and the request ends with an error.
C24_MissingCredentialsRejected ==
    MissingCredentials
        => /\ gwCalls = 0
           /\ dispatched = 0
           /\ history = << >>
           /\ pc = "done" => result[1].status = "error"

\* a chat request is between its call of process_message and its return
InFlight(t) == chats[t].pc \notin {"idle", "done"}

\* the chat request that appended a stored turn
OwnerOf(turn) == owners[turn.timestamp + 1]

\* the turns of each chat request are next to each other in the sequence h
Contiguous(h) ==
    \A i, j, k \in 1 .. Len(h) :
        (i < j /\ j < k /\ OwnerOf(h[i]) = OwnerOf(h[k])) => OwnerOf(h[j]) = OwnerOf(h[i])

\* the stored turns h a gateway call of chat request t was made over hold no
\* tool request of another chat request without its result right after it
NoPartialExchangeOfOthers(t, h) ==
    \A i \in 1 .. Len(h) :
        (h[i].function_call # None /\ OwnerOf(h[i]) # t)
            => /\ i < Len(h)
               /\ h[i + 1].role = "function"
               /\ OwnerOf(h[i + 1]) = OwnerOf(h[i])

\* C21 (as claimed): chat requests on the shared agent are serialized: at
\* most one process_message call is in flight, the turns of each request are
\* contiguous in the store, and no gateway call of a request is made over a
\* partial tool exchange of another request.
C21_RequestsSerialized ==
    /\ \A t, u \in Chats : (InFlight(t) /\ InFlight(u)) => t = u
    /\ Contiguous(history)
    /\ \A t \in Chats :
          chats[t].seen # None => NoPartialExchangeOfOthers(t, chats[t].seen[1])

\* the reset and every chat request that was started have finished
AllFinished ==
    /\ resets >= 1
    /\ \A t \in Chats : ~InFlight(t)
    /\ \E t \in Chats : chats[t].pc = "done"

\* C30 (as claimed): a reset issued while a process_message call is in
\* flight is not lost: once both have finished the store holds no turn that
\* was appended before the reset, and the call has returned a status.
C30_ResetNotLost ==
    AllFinished
        => /\ \A i \in 1 .. Len(history) : history[i].timestamp >= clearedAt
           /\ \A t \in Chats :
                 chats[t].pc = "done" => chats[t].status \in {Some(st) : st \in Statuses}

====
